---- MODULE Spec2Model ----
(***************************************************************************)
(* Model of garagemq's amqp/types.go: the Message aggregate, its identity  *)
(* counter, its binary persistence codec, ConfirmMeta and the Error        *)
(* constructors.                                                           *)
(*                                                                         *)
(* Go values are modelled as follows.                                      *)
(*   - []byte and string: sequences of octets (0..255)                     *)
(*   - a pointer that may be nil: a sequence of length 0 (nil) or 1        *)
(*   - error: a string, "" for nil                                         *)
(*   - uint64/uint32/uint16: naturals; the encoders emit the full width,   *)
(*     the values used stay far below the width so no step wraps           *)
(* The primitive codec (WriteLonglong, ReadFrame, ...), the content-header *)
(* codec and ConstantsNameMap live in other files of the package; they are *)
(* modelled here from the AMQP 0-9-1 wire layout the specification names.  *)
(***************************************************************************)
EXTENDS Integers, Sequences, FiniteSets, TLC

VARIABLES
    msgID,        \* the process-wide identity counter (types.go:65)
    message,      \* the Message the publish path is working on
    appended,     \* history: frames passed to Append since NewMessage
    origin,       \* history: "new" (NewMessage + Append only) or "restored"
    ret,          \* the last call on `message` and what it returned
    codecMsg,     \* codec run: the Message handed to Marshal
    codecOut,     \* codec run: Marshal's call and its (data, err)
    codecBuf,     \* codec run: the bytes handed to Unmarshal
    codecIn,      \* codec run: Unmarshal's call, its receiver after, its err
    codecPc,      \* codec run: "start", "marshalled" or "unmarshalled"
    loopBlob,     \* decode loop: rawBody, the blob ReadLongstr returned
    loopBuffer,   \* decode loop: bodyBuffer, the unread bytes of the blob
    loopBody,     \* decode loop: message.Body so far
    loopPc,       \* decode loop: "loop", "done" or "error"
    loopSrc,      \* history: the frames the blob was encoded from
    seqID,        \* concurrent GenerateSeq: message.ID of each caller's message
    seqReg,       \* concurrent GenerateSeq: the value atomic.AddUint64 returned
    seqPc,        \* concurrent GenerateSeq: each caller's position
    seqBefore,    \* history: the calls that had returned when a call began
    confirmMeta,  \* the ConfirmMeta of one publish
    acked,        \* destinations whose completion has been counted
    polled,       \* the CanConfirm results seen, newest last (at most one)
    connErr,      \* the last NewConnectionError call: its arguments and result
    chanErr       \* the last NewChannelError call: its arguments and result

lifeVars == <<message, appended, origin, ret>>
codecVars == <<codecMsg, codecOut, codecBuf, codecIn, codecPc>>
loopVars == <<loopBlob, loopBuffer, loopBody, loopPc, loopSrc>>
seqVars == <<seqID, seqReg, seqPc, seqBefore>>
confirmVars == <<confirmMeta, acked, polled>>
errVars == <<connErr, chanErr>>
vars ==
    <<msgID, lifeVars, codecVars, loopVars, seqVars, confirmVars, errVars>>

\* what the actions of one part leave alone
outsideLife == <<codecVars, loopVars, seqVars, confirmVars, errVars>>
outsideCodec == <<msgID, lifeVars, loopVars, seqVars, confirmVars, errVars>>
outsideLoop == <<msgID, lifeVars, codecVars, seqVars, confirmVars, errVars>>
outsideSeq == <<lifeVars, codecVars, loopVars, confirmVars, errVars>>
outsideConfirm == <<msgID, lifeVars, codecVars, loopVars, seqVars, errVars>>
outsideErr == <<msgID, lifeVars, codecVars, loopVars, seqVars, confirmVars>>

\* ------------------------------------------------------------------ bounds
MaxFrames == 2      \* body frames per message
MaxSeq == 3         \* identities drawn from the counter in one run
NumCallers == 3     \* goroutines calling GenerateSeq concurrently
MaxConfirms == 3    \* destinations one publish is routed to
MaxCount == 3       \* magnitude of the counters CanConfirm is tried on

\* ------------------------------------------------------------ byte helpers
RECURSIVE BE(_, _)
\* n as w big-endian octets
BE(n, w) == IF w = 0 THEN <<>> ELSE BE(n \div 256, w - 1) \o <<n % 256>>

RECURSIVE FromBEUpTo(_, _)
FromBEUpTo(bs, i) ==
    IF i = 0 THEN 0 ELSE FromBEUpTo(bs, i - 1) * 256 + bs[i]

\* the natural number a big-endian octet string denotes
FromBE(bs) == FromBEUpTo(bs, Len(bs))

\* F applied to the value of x: x is evaluated once, as in
\* `v := x; return F(v)`
With(x, F(_)) == CHOOSE y \in {F(v) : v \in {x}} : TRUE

Take(bs, n) == SubSeq(bs, 1, n)
Drop(bs, n) == SubSeq(bs, n + 1, Len(bs))

NoErr == ""
ErrWrite == "write failed"
ErrEOF == "unexpected EOF"
ErrFrameEnd == "bad frame end"
ErrFieldType == "unknown field type"

\* ------------------------------------------------- primitive wire codec
\* Each writer takes the buffer, the value and whether the underlying
\* io.Writer rejects this write; it returns the buffer and the error.
WriteN(buf, bytes, fails) ==
    IF fails THEN [buf |-> buf, err |-> ErrWrite]
    ELSE [buf |-> buf \o bytes, err |-> NoErr]

WriteLonglong(buf, n, fails) == WriteN(buf, BE(n, 8), fails)
WriteLong(buf, n, fails) == WriteN(buf, BE(n, 4), fails)
WriteShortstr(buf, s, fails) == WriteN(buf, <<Len(s) % 256>> \o s, fails)
WriteLongstr(buf, s, fails) == WriteN(buf, BE(Len(s), 4) \o s, fails)

\* Each reader takes the unread bytes and returns the value, the bytes left
\* and the error; on error the value is the type's zero value.
ReadLonglong(r) ==
    IF Len(r) < 8 THEN [val |-> 0, rest |-> <<>>, err |-> ErrEOF]
    ELSE [val |-> FromBE(Take(r, 8)), rest |-> Drop(r, 8), err |-> NoErr]

ReadLong(r) ==
    IF Len(r) < 4 THEN [val |-> 0, rest |-> <<>>, err |-> ErrEOF]
    ELSE [val |-> FromBE(Take(r, 4)), rest |-> Drop(r, 4), err |-> NoErr]

ReadShortstr(r) ==
    IF Len(r) < 1 \/ Len(r) < 1 + r[1]
    THEN [val |-> <<>>, rest |-> <<>>, err |-> ErrEOF]
    ELSE [val |-> SubSeq(r, 2, 1 + r[1]), rest |-> Drop(r, 1 + r[1]),
          err |-> NoErr]

ReadLongstr(r) ==
    IF Len(r) < 4 THEN [val |-> <<>>, rest |-> <<>>, err |-> ErrEOF]
    ELSE With(FromBE(Take(r, 4)), LAMBDA n :
            IF Len(r) < 4 + n
            THEN [val |-> <<>>, rest |-> <<>>, err |-> ErrEOF]
            ELSE [val |-> SubSeq(r, 5, 4 + n), rest |-> Drop(r, 4 + n),
                  err |-> NoErr])

\* ------------------------------------------------------------------ Frame
FrameBody == 3
FrameEnd == 206
FrameHeaderLen == 7

Frame(channelID, type, closeAfter, sync, payload) ==
    [ChannelID |-> channelID, Type |-> type, CloseAfter |-> closeAfter,
     Sync |-> sync, Payload |-> payload]

\* type, channel, payload size, payload, frame-end octet
WriteFrame(buf, frame, fails) ==
    WriteN(buf,
           <<frame.Type>> \o BE(frame.ChannelID, 2)
               \o BE(Len(frame.Payload), 4) \o frame.Payload \o <<FrameEnd>>,
           fails)

ReadFrame(r) ==
    IF Len(r) < FrameHeaderLen
    THEN [val |-> <<>>, rest |-> <<>>, err |-> ErrEOF]
    ELSE With(FromBE(SubSeq(r, 4, 7)), LAMBDA size :
         With(Drop(r, FrameHeaderLen), LAMBDA body :
            IF Len(body) < size + 1
            THEN [val |-> <<>>, rest |-> <<>>, err |-> ErrEOF]
            ELSE IF body[size + 1] # FrameEnd
            THEN [val |-> <<>>, rest |-> Drop(body, size + 1),
                  err |-> ErrFrameEnd]
            ELSE [val |-> <<Frame(FromBE(SubSeq(r, 2, 3)), r[1], FALSE,
                                  FALSE, Take(body, size))>>,
                  rest |-> Drop(body, size + 1), err |-> NoErr]))

\* ---------------------------------------------------------- ContentHeader
ProtoRabbit == "amqp-rabbit"
Proto091 == "amqp-0-9-1"
ProtoVersions == {ProtoRabbit, Proto091}

FlagHeaders == 8192
FlagDeliveryMode == 4096
ContentHeaderLen == 14

\* BasicPropertyList, reduced to the delivery mode (*byte) and the headers
\* table (*Table, reduced to one short-int field)
PropertyList(deliveryMode, headers) ==
    [DeliveryMode |-> deliveryMode, Headers |-> headers]

PropertyFlags(props) ==
    (IF props.Headers # <<>> THEN FlagHeaders ELSE 0)
        + (IF props.DeliveryMode # <<>> THEN FlagDeliveryMode ELSE 0)

ContentHeader(bodySize, classID, weight, props) ==
    [BodySize |-> bodySize, ClassID |-> classID, Weight |-> weight,
     propertyFlags |-> PropertyFlags(props), PropertyList |-> props]

HasFlag(flags, bit) == (flags \div bit) % 2 = 1

\* the octet that tags a short-int table field: 's' for the RabbitMQ
\* dialect, 'U' for strict 0-9-1
ShortIntTag(protoVersion) == IF protoVersion = ProtoRabbit THEN 115 ELSE 85

WriteTable(n, protoVersion) ==
    BE(3, 4) \o <<ShortIntTag(protoVersion)>> \o BE(n, 2)

ReadTable(r, protoVersion) ==
    With(ReadLongstr(r), LAMBDA s :
       IF s.err # NoErr THEN [val |-> <<>>, rest |-> <<>>, err |-> s.err]
       ELSE IF Len(s.val) # 3 \/ s.val[1] # ShortIntTag(protoVersion)
       THEN [val |-> <<>>, rest |-> s.rest, err |-> ErrFieldType]
       ELSE [val |-> <<FromBE(SubSeq(s.val, 2, 3))>>, rest |-> s.rest,
             err |-> NoErr])

\* class-id, weight, body size, property flags, then the present properties
WriteContentHeader(buf, header, protoVersion, fails) ==
    LET h == header[1]
        props == h.PropertyList
    IN WriteN(buf,
              BE(h.ClassID, 2) \o BE(h.Weight, 2) \o BE(h.BodySize, 8)
                  \o BE(PropertyFlags(props), 2)
                  \o (IF props.Headers # <<>>
                      THEN WriteTable(props.Headers[1], protoVersion)
                      ELSE <<>>)
                  \o props.DeliveryMode,
              fails)

ReadContentHeader(r, protoVersion) ==
    IF Len(r) < ContentHeaderLen
    THEN [val |-> <<>>, rest |-> <<>>, err |-> ErrEOF]
    ELSE
    With(FromBE(SubSeq(r, 13, 14)), LAMBDA flags :
    With(IF HasFlag(flags, FlagHeaders)
         THEN ReadTable(Drop(r, ContentHeaderLen), protoVersion)
         ELSE [val |-> <<>>, rest |-> Drop(r, ContentHeaderLen),
               err |-> NoErr], LAMBDA t :
    With(IF t.err # NoErr THEN t
         ELSE IF ~HasFlag(flags, FlagDeliveryMode)
         THEN [val |-> <<>>, rest |-> t.rest, err |-> NoErr]
         ELSE IF Len(t.rest) < 1
         THEN [val |-> <<>>, rest |-> <<>>, err |-> ErrEOF]
         ELSE [val |-> <<t.rest[1]>>, rest |-> Drop(t.rest, 1),
               err |-> NoErr], LAMBDA dm :
        IF dm.err # NoErr
        THEN [val |-> <<>>, rest |-> dm.rest, err |-> dm.err]
        ELSE [val |-> <<[BodySize |-> FromBE(SubSeq(r, 5, 12)),
                         ClassID |-> FromBE(SubSeq(r, 1, 2)),
                         Weight |-> FromBE(SubSeq(r, 3, 4)),
                         propertyFlags |-> flags,
                         PropertyList |-> PropertyList(dm.val, t.val)]>>,
              rest |-> dm.rest, err |-> NoErr])))

\* ------------------------------------------------------------ ConfirmMeta
ConfirmMeta(chanID, connID, deliveryTag, expected, actual) ==
    [ChanID |-> chanID, ConnID |-> connID, DeliveryTag |-> deliveryTag,
     ExpectedConfirms |-> expected, ActualConfirms |-> actual]

\* mutant: confirmable as soon as the count reaches the expectation or more
CanConfirmAtLeast(meta) == meta.ActualConfirms >= meta.ExpectedConfirms

\* mutant: confirmable as soon as the count does not exceed the expectation
CanConfirmAtMost(meta) == meta.ActualConfirms <= meta.ExpectedConfirms

CanConfirm(meta) == meta.ActualConfirms = meta.ExpectedConfirms

\* ---------------------------------------------------------------- Message
\* the zero value Message{}
ZeroMessage ==
    [ID |-> 0, BodySize |-> 0, DeliveryCount |-> 0, Mandatory |-> FALSE,
     Immediate |-> FALSE, Exchange |-> <<>>, RoutingKey |-> <<>>,
     ConfirmMeta |-> <<>>, Header |-> <<>>, Body |-> <<>>]

BasicPublish(exchange, routingKey, mandatory, immediate) ==
    [Exchange |-> exchange, RoutingKey |-> routingKey,
     Mandatory |-> mandatory, Immediate |-> immediate]

NewMessage(method) ==
    [ZeroMessage EXCEPT !.Exchange = method.Exchange,
                        !.RoutingKey = method.RoutingKey,
                        !.Mandatory = method.Mandatory,
                        !.Immediate = method.Immediate,
                        !.BodySize = 0,
                        !.DeliveryCount = 0]

\* mutant: any present delivery mode counts as persistent
IsPersistentAnyMode(m) ==
    m.Header[1].PropertyList.DeliveryMode # <<>>

IsPersistent(m) ==
    LET deliveryMode == m.Header[1].PropertyList.DeliveryMode
    IN deliveryMode # <<>> /\ deliveryMode[1] = 2

\* mutant: the ID = 0 guard is missing
GenerateSeqUnguarded(m, counter) ==
    [message |-> [m EXCEPT !.ID = counter + 1], msgID |-> counter + 1]

\* returns the message and the counter after the call
GenerateSeq(m, counter) ==
    IF m.ID = 0
    THEN [message |-> [m EXCEPT !.ID = counter + 1], msgID |-> counter + 1]
    ELSE [message |-> m, msgID |-> counter]

\* mutant: BodySize is set to the frame's length instead of increased by it
MessageAppendSetsSize(m, body) ==
    [m EXCEPT !.Body = Append(m.Body, body),
              !.BodySize = Len(body.Payload)]

MessageAppend(m, body) ==
    [m EXCEPT !.Body = Append(m.Body, body),
              !.BodySize = m.BodySize + Len(body.Payload)]

RECURSIVE WriteFramesReversed(_, _, _, _)
\* mutant: the frames are written last to first
WriteFramesReversed(buf, frames, i, fault) ==
    IF i > Len(frames) THEN [buf |-> buf, err |-> NoErr]
    ELSE With(WriteFrame(buf, frames[Len(frames) + 1 - i], fault = 5 + i),
              LAMBDA w :
                IF w.err # NoErr THEN w
                ELSE WriteFramesReversed(w.buf, frames, i + 1, fault))

RECURSIVE WriteFrames(_, _, _, _)
\* the loop of Marshal over message.Body; the i-th WriteFrame call is
\* primitive write number 5 + i, and `fault` numbers the write that fails
WriteFrames(buf, frames, i, fault) ==
    IF i > Len(frames) THEN [buf |-> buf, err |-> NoErr]
    ELSE With(WriteFrame(buf, frames[i], fault = 5 + i), LAMBDA w :
            IF w.err # NoErr THEN w
            ELSE WriteFrames(w.buf, frames, i + 1, fault))

\* returns (data, err); fault = 0 means every primitive write succeeds
Marshal(m, protoVersion, fault) ==
    LET fail(e) == [data |-> <<>>, err |-> e]
        n == Len(m.Body)
    IN
    With(WriteLonglong(<<>>, m.ID, fault = 1), LAMBDA w1 :
    IF w1.err # NoErr THEN fail(w1.err) ELSE
    With(WriteContentHeader(w1.buf, m.Header, protoVersion, fault = 2),
         LAMBDA w2 :
    IF w2.err # NoErr THEN fail(w2.err) ELSE
    With(WriteShortstr(w2.buf, m.Exchange, fault = 3), LAMBDA w3 :
    IF w3.err # NoErr THEN fail(w3.err) ELSE
    With(WriteShortstr(w3.buf, m.RoutingKey, fault = 4), LAMBDA w4 :
    IF w4.err # NoErr THEN fail(w4.err) ELSE
    With(WriteLonglong(w4.buf, m.BodySize, fault = 5), LAMBDA w5 :
    IF w5.err # NoErr THEN fail(w5.err) ELSE
    With(WriteFrames(<<>>, m.Body, 1, fault), LAMBDA body :
    IF body.err # NoErr THEN fail(body.err) ELSE
    With(WriteLongstr(w5.buf, body.buf, fault = 6 + n), LAMBDA w6 :
    IF w6.err # NoErr THEN fail(w6.err) ELSE
    With(WriteLong(w6.buf, m.DeliveryCount, fault = 7 + n), LAMBDA w7 :
    IF w7.err # NoErr THEN fail(w7.err) ELSE
    [data |-> w7.buf, err |-> NoErr]))))))))

RECURSIVE ReadFramesSwallowsError(_, _)
\* mutant: a ReadFrame error ends the loop without being returned
ReadFramesSwallowsError(bodyBuffer, body) ==
    IF Len(bodyBuffer) = 0 THEN [Body |-> body, err |-> NoErr]
    ELSE With(ReadFrame(bodyBuffer), LAMBDA f :
            IF f.err # NoErr THEN [Body |-> body, err |-> NoErr]
            ELSE ReadFramesSwallowsError(f.rest, Append(body, f.val[1])))

RECURSIVE ReadFrames(_, _)
\* the loop of Unmarshal over bodyBuffer: returns the Body after the loop
\* and the error of the ReadFrame call that stopped it, if one did
ReadFrames(bodyBuffer, body) ==
    IF Len(bodyBuffer) = 0 THEN [Body |-> body, err |-> NoErr]
    ELSE With(ReadFrame(bodyBuffer), LAMBDA f :
            IF f.err # NoErr THEN [Body |-> body, err |-> f.err]
            ELSE ReadFrames(f.rest, Append(body, f.val[1])))

\* returns the receiver as the call leaves it, and err
Unmarshal(m, buffer, protoVersion) ==
    With(ReadLonglong(buffer), LAMBDA r1 :
    With([m EXCEPT !.ID = r1.val], LAMBDA m1 :
    IF r1.err # NoErr THEN [message |-> m1, err |-> r1.err] ELSE
    With(ReadContentHeader(r1.rest, protoVersion), LAMBDA r2 :
    With([m1 EXCEPT !.Header = r2.val], LAMBDA m2 :
    IF r2.err # NoErr THEN [message |-> m2, err |-> r2.err] ELSE
    With(ReadShortstr(r2.rest), LAMBDA r3 :
    With([m2 EXCEPT !.Exchange = r3.val], LAMBDA m3 :
    IF r3.err # NoErr THEN [message |-> m3, err |-> r3.err] ELSE
    With(ReadShortstr(r3.rest), LAMBDA r4 :
    With([m3 EXCEPT !.RoutingKey = r4.val], LAMBDA m4 :
    IF r4.err # NoErr THEN [message |-> m4, err |-> r4.err] ELSE
    With(ReadLonglong(r4.rest), LAMBDA r5 :
    With([m4 EXCEPT !.BodySize = r5.val], LAMBDA m5 :
    IF r5.err # NoErr THEN [message |-> m5, err |-> r5.err] ELSE
    With(ReadLongstr(r5.rest), LAMBDA rawBody :
    IF rawBody.err # NoErr THEN [message |-> m5, err |-> rawBody.err] ELSE
    With(ReadFrames(rawBody.val, m5.Body), LAMBDA loop :
    With([m5 EXCEPT !.Body = loop.Body], LAMBDA m6 :
    IF loop.err # NoErr THEN [message |-> m6, err |-> loop.err] ELSE
    With(ReadLong(rawBody.rest), LAMBDA r7 :
    With([m6 EXCEPT !.DeliveryCount = r7.val], LAMBDA m7 :
    IF r7.err # NoErr THEN [message |-> m7, err |-> r7.err] ELSE
    [message |-> m7, err |-> NoErr])))))))))))))))

\* ------------------------------------------------------------------ Error
ErrorOnConnection == 0
ErrorOnChannel == 1

NotFound == 404
ChannelError == 504
SyntaxError == 502

\* ConstantsNameMap[code]; a code missing from a Go map reads as ""
ConstantsNameMap(code) ==
    CASE code = NotFound -> "NOT_FOUND"
      [] code = ChannelError -> "CHANNEL_ERROR"
      [] code = SyntaxError -> "SYNTAX_ERROR"
      [] OTHER -> ""

NewConnectionError(code, text, classID, methodID) ==
    [ReplyCode |-> code,
     ReplyText |-> ConstantsNameMap(code) \o " - " \o text,
     ClassID |-> classID,
     MethodID |-> methodID,
     ErrorType |-> ErrorOnConnection]

\* mutant: the channel constructor tags the error with the connection scope
NewChannelErrorConnectionScoped(code, text, classID, methodID) ==
    [ReplyCode |-> code,
     ReplyText |-> ConstantsNameMap(code) \o " - " \o text,
     ClassID |-> classID,
     MethodID |-> methodID,
     ErrorType |-> ErrorOnConnection]

NewChannelError(code, text, classID, methodID) ==
    [ReplyCode |-> code,
     ReplyText |-> ConstantsNameMap(code) \o " - " \o text,
     ClassID |-> classID,
     MethodID |-> methodID,
     ErrorType |-> ErrorOnChannel]

\* ----------------------------------------------------------------- inputs
Seeds == {255}
Methods ==
    {BasicPublish(<<108, 111>>, <<105>>, FALSE, FALSE),
     BasicPublish(<<>>, <<105, 110>>, TRUE, TRUE)}
DeliveryModes == {<<>>, <<1>>, <<2>>}
Headers ==
    {ContentHeader(3, 60, 0, PropertyList(dm, <<300>>)) :
        dm \in DeliveryModes}
\* body frames as the connection reads them off the wire
Frames ==
    {Frame(1, FrameBody, FALSE, FALSE, <<>>),
     Frame(2, FrameBody, FALSE, FALSE, <<7, 206, 9>>)}

RECURSIVE SumPayloadUpTo(_, _)
SumPayloadUpTo(frames, i) ==
    IF i = 0 THEN 0
    ELSE SumPayloadUpTo(frames, i - 1) + Len(frames[i].Payload)

SumPayload(frames) == SumPayloadUpTo(frames, Len(frames))

\* records found in the message store: messages persisted by an earlier
\* run, whole or cut short
StoredMessages ==
    {[ZeroMessage EXCEPT !.ID = 77, !.Exchange = <<108>>,
                         !.Header = <<ContentHeader(3, 60, 0,
                                         PropertyList(<<2>>, <<300>>))>>,
                         !.BodySize = 3,
                         !.Body = <<Frame(1, FrameBody, FALSE, FALSE,
                                          <<7, 8, 9>>)>>,
                         !.DeliveryCount = 1]}
\* a record whole, cut inside the identity and cut inside the header
Cuts(data) == {Take(data, n) : n \in {4, 20, Len(data)}}
StoredRecords ==
    UNION {{[data |-> d, v |-> v] : d \in Cuts(Marshal(m, v, 0).data)} :
              m \in StoredMessages, v \in ProtoVersions}

Call(op, fresh, ok, data, err) ==
    [op |-> op, fresh |-> fresh, ok |-> ok, data |-> data, err |-> err]

\* ------------------------------------- the parts a run does not exercise
IdleLife ==
    /\ message = ZeroMessage
    /\ appended = <<>>
    /\ origin = "new"
    /\ ret = Call("", FALSE, FALSE, <<>>, NoErr)

IdleCodec ==
    /\ codecMsg = ZeroMessage
    /\ codecOut = <<>>
    /\ codecBuf = <<>>
    /\ codecIn = <<>>
    /\ codecPc = ""

IdleLoop ==
    /\ loopBlob = <<>>
    /\ loopBuffer = <<>>
    /\ loopBody = <<>>
    /\ loopPc = ""
    /\ loopSrc = <<>>

IdleSeq ==
    /\ seqID = <<>>
    /\ seqReg = <<>>
    /\ seqPc = <<>>
    /\ seqBefore = <<>>

IdleConfirm ==
    /\ confirmMeta = <<>>
    /\ acked = {}
    /\ polled = <<>>

IdleErr ==
    /\ connErr = <<>>
    /\ chanErr = <<>>

\* -------------------------------------------- the life of one Message
InitLife ==
    /\ msgID \in Seeds
    /\ \E method \in Methods : message = NewMessage(method)
    /\ appended = <<>>
    /\ origin = "new"
    /\ ret = Call("NewMessage", TRUE, FALSE, <<>>, NoErr)

NewMessageAct ==
    \E method \in Methods :
        /\ message' = NewMessage(method)
        /\ appended' = <<>>
        /\ origin' = "new"
        /\ ret' = Call("NewMessage", TRUE, FALSE, <<>>, NoErr)
        /\ UNCHANGED <<msgID, outsideLife>>

\* the channel stores the decoded header frame into message.Header
AttachHeader ==
    \E h \in Headers :
        /\ message.Header = <<>>
        /\ message' = [message EXCEPT !.Header = <<h>>]
        /\ ret' = Call("AttachHeader", FALSE, FALSE, <<>>, NoErr)
        /\ UNCHANGED <<msgID, appended, origin, outsideLife>>

GenerateSeqAct ==
    /\ message.ID # 0 \/ \E s \in Seeds : msgID - s \in 0..(MaxSeq - 1)
    /\ \E g \in {GenerateSeq(message, msgID)} :
          /\ message' = g.message
          /\ msgID' = g.msgID
    /\ ret' = Call("GenerateSeq", FALSE, FALSE, <<>>, NoErr)
    /\ UNCHANGED <<appended, origin, outsideLife>>

AppendAct ==
    \E body \in Frames :
        /\ Len(message.Body) < MaxFrames
        /\ message' = MessageAppend(message, body)
        /\ appended' = Append(appended, body)
        /\ ret' = Call("Append", FALSE, FALSE, <<>>, NoErr)
        /\ UNCHANGED <<msgID, origin, outsideLife>>

IsPersistentAct ==
    /\ message.Header # <<>>
    /\ ret' = Call("IsPersistent", FALSE, IsPersistent(message), <<>>, NoErr)
    /\ UNCHANGED <<msgID, message, appended, origin, outsideLife>>

\* the writes go to a bytes.Buffer, which accepts every write
MarshalAct ==
    \E v \in ProtoVersions :
        /\ message.Header # <<>>
        /\ \E r \in {Marshal(message, v, 0)} :
              ret' = Call("Marshal", FALSE, FALSE, r.data, r.err)
        /\ UNCHANGED <<msgID, message, appended, origin, outsideLife>>

\* a stored record is read back with the protoVersion it was written with,
\* into a fresh Message or into the one at hand
UnmarshalAct ==
    \E rec \in StoredRecords, fresh \in BOOLEAN :
        \E r \in {Unmarshal(IF fresh THEN ZeroMessage ELSE message,
                             rec.data, rec.v)} :
           /\ fresh \/ origin = "new"
           /\ Len(r.message.Body) <= MaxFrames
           /\ message' = r.message
           /\ appended' = IF fresh THEN <<>> ELSE appended
           /\ origin' = "restored"
           /\ ret' = Call("Unmarshal", fresh, FALSE, <<>>, r.err)
           /\ UNCHANGED <<msgID, outsideLife>>

Init ==
    InitLife /\ IdleCodec /\ IdleLoop /\ IdleSeq /\ IdleConfirm /\ IdleErr

Next ==
    \/ NewMessageAct
    \/ AttachHeader
    \/ GenerateSeqAct
    \/ AppendAct
    \/ IsPersistentAct
    \/ MarshalAct
    \/ UnmarshalAct

Spec == Init /\ [][Next]_vars

\* ------------------------------------------------ claims on the life run
SameMessage(call) ==
    call.op # "NewMessage" /\ ~(call.op = "Unmarshal" /\ call.fresh)

StoredIDs == {m.ID : m \in StoredMessages}

\* C3 as stated: once a Message's ID is non-zero, no later operation on that
\* Message (GenerateSeq, Append, Marshal, Unmarshal, ...) changes the ID.
C3_IdentityNeverChanges ==
    [][(message.ID # 0 /\ SameMessage(ret')) => message'.ID = message.ID]_vars

\* C3 amended: once a Message's ID is non-zero, GenerateSeq, Append, Marshal,
\* IsPersistent and attaching the header leave it unchanged, and GenerateSeq
\* on such a Message changes neither the Message nor the counter; Unmarshal
\* instead overwrites the receiver's ID with the identity decoded from the
\* buffer, or with 0 when that read fails.
C3_IdentityStableExceptUnmarshal ==
    [][/\ (message.ID # 0 /\ SameMessage(ret') /\ ret'.op # "Unmarshal")
            => message'.ID = message.ID
       /\ (message.ID # 0 /\ ret'.op = "GenerateSeq")
            => (message' = message /\ msgID' = msgID)
       /\ ret'.op = "Unmarshal"
            => /\ message'.ID \in StoredIDs \cup {0}
               /\ ret'.err = NoErr => message'.ID \in StoredIDs]_vars

\* GenerateSeq has run on a Message restored from storage with its identity
C3_Witness ==
    /\ ret.op = "GenerateSeq"
    /\ origin = "restored"
    /\ message.ID \in StoredIDs

\* C4: a Message built by NewMessage and Append holds exactly the appended
\* frames in call order, BodySize is the sum of their payload lengths, and
\* each Append adds one frame at the end and that frame's length to BodySize.
C4_Accumulation ==
    /\ [](origin = "new" =>
            /\ message.Body = appended
            /\ message.BodySize = SumPayload(appended))
    /\ [][ret'.op = "Append" =>
            /\ Len(message'.Body) = Len(message.Body) + 1
            /\ SubSeq(message'.Body, 1, Len(message.Body)) = message.Body
            /\ message'.BodySize = message.BodySize
                   + Len(message'.Body[Len(message'.Body)].Payload)]_vars

\* the same frame appended twice: both copies are kept and counted
C4_Witness ==
    /\ origin = "new"
    /\ ret.op = "Append"
    /\ Len(message.Body) = 2
    /\ message.Body[1] = message.Body[2]
    /\ message.BodySize = 6

\* C8: IsPersistent is true exactly when the delivery mode is present and 2,
\* and the call leaves the Message as it was.
C8_IsPersistent ==
    /\ [](ret.op = "IsPersistent" =>
            (ret.ok <=> message.Header[1].PropertyList.DeliveryMode = <<2>>))
    /\ [][ret'.op = "IsPersistent" => message' = message]_vars

C8_Witness ==
    /\ ret.op = "IsPersistent"
    /\ message.Header[1].PropertyList.DeliveryMode = <<2>>
    /\ ret.ok

\* ----------------------------------------- a codec run: Marshal, Unmarshal
BodySeqs == UNION {[1..n -> Frames] : n \in 0..MaxFrames}

CodecHeaders ==
    {ContentHeader(3, 60, 0, PropertyList(<<>>, <<>>)),
     ContentHeader(3, 60, 0, PropertyList(<<2>>, <<300>>))}

RECURSIVE AppendUpTo(_, _, _)
AppendUpTo(m, frames, i) ==
    IF i = 0 THEN m
    ELSE With(AppendUpTo(m, frames, i - 1), LAMBDA m1 :
            MessageAppend(m1, frames[i]))

AppendAll(m, frames) == AppendUpTo(m, frames, Len(frames))

\* a Message as the publish path hands it to the store: built by NewMessage,
\* header attached, frames appended; `routed` says whether it has also been
\* given an identity, a confirm contract and one redelivery
Assembled(method, header, frames, routed) ==
    With(AppendAll([NewMessage(method) EXCEPT !.Header = <<header>>],
                   frames), LAMBDA m2 :
       IF routed
       THEN [GenerateSeq(m2, 255).message EXCEPT
                !.ConfirmMeta = <<ConfirmMeta(1, 9, 4, 1, 0)>>,
                !.DeliveryCount = 1]
       ELSE m2)

CodecMessages ==
    {Assembled(method, header, frames, routed) :
        method \in Methods, header \in CodecHeaders, frames \in BodySeqs,
        routed \in BOOLEAN}

\* the record whole, every truncation of it, and two corruptions: the octet
\* before the delivery count (the last frame's frame-end, or the blob length
\* when the body is empty) and the exchange name's length prefix
Damaged(data, m, v) ==
    LET exchangeAt == 8 + Len(WriteContentHeader(<<>>, m.Header, v, FALSE).buf)
                        + 1
    IN {Take(data, n) : n \in 0..Len(data)}
           \cup {[data EXCEPT ![Len(data) - 4] = 9],
                 [data EXCEPT ![exchangeAt] = 200]}

InitCodec ==
    /\ codecMsg \in CodecMessages
    /\ codecOut = <<>>
    /\ codecBuf = <<>>
    /\ codecIn = <<>>
    /\ codecPc = "start"

CodecMarshal ==
    \E v \in ProtoVersions, fault \in 0..(7 + MaxFrames) :
        /\ codecPc = "start"
        /\ \E r \in {Marshal(codecMsg, v, fault)} :
              codecOut' = [v |-> v, fault |-> fault, data |-> r.data,
                           err |-> r.err]
        /\ codecPc' = "marshalled"
        /\ UNCHANGED <<codecMsg, codecBuf, codecIn, outsideCodec>>

\* Unmarshal into a fresh Message
CodecUnmarshal ==
    /\ codecPc = "marshalled"
    /\ codecOut.err = NoErr
    /\ \E buffer \in Damaged(codecOut.data, codecMsg, codecOut.v),
          v \in ProtoVersions :
        /\ codecBuf' = buffer
        /\ \E r \in {Unmarshal(ZeroMessage, buffer, v)} :
              codecIn' = [v |-> v, message |-> r.message, err |-> r.err]
    /\ codecPc' = "unmarshalled"
    /\ UNCHANGED <<codecMsg, codecOut, outsideCodec>>

InitSpecCodec ==
    /\ msgID \in Seeds
    /\ InitCodec /\ IdleLife /\ IdleLoop /\ IdleSeq /\ IdleConfirm /\ IdleErr

NextCodec ==
    \/ CodecMarshal
    \/ CodecUnmarshal

SpecCodec == InitSpecCodec /\ [][NextCodec]_vars

IsPrefix(a, b) == Len(a) <= Len(b) /\ Take(b, Len(a)) = a

\* what the record format keeps of a Message
Persisted(m) ==
    [m EXCEPT !.Mandatory = FALSE, !.Immediate = FALSE, !.ConfirmMeta = <<>>]

RoundTripCase ==
    /\ codecPc = "unmarshalled"
    /\ codecBuf = codecOut.data
    /\ codecIn.v = codecOut.v

\* C1 as stated: Marshal succeeds, and Unmarshal of its bytes with the same
\* protoVersion into a fresh Message gives a Message equal to the original
\* in every field.
C1_RoundTripEveryField ==
    /\ (codecPc # "start" /\ codecOut.fault = 0) => codecOut.err = NoErr
    /\ RoundTripCase => (codecIn.err = NoErr /\ codecIn.message = codecMsg)

\* C1 amended: Marshal succeeds, and Unmarshal of its bytes with the same
\* protoVersion into a fresh Message gives a Message equal to the original in
\* ID, Header, Exchange, RoutingKey, BodySize, DeliveryCount and Body (frames
\* in order); Mandatory, Immediate and ConfirmMeta are not part of the record
\* and come back FALSE, FALSE and nil.
C1_RoundTripPersistedFields ==
    /\ (codecPc # "start" /\ codecOut.fault = 0) => codecOut.err = NoErr
    /\ RoundTripCase =>
           /\ codecIn.err = NoErr
           /\ codecIn.message = Persisted(codecMsg)
           /\ codecIn.message.Body = codecMsg.Body
           /\ codecIn.message.BodySize = codecMsg.BodySize
           /\ ~codecIn.message.Mandatory /\ ~codecIn.message.Immediate

C1_Witness ==
    /\ RoundTripCase
    /\ codecMsg.Mandatory
    /\ codecMsg.ID # 0
    /\ Len(codecMsg.Body) = 2
    /\ codecMsg.Body[1] # codecMsg.Body[2]
    /\ codecIn.message.Body = codecMsg.Body

\* C7: Marshal returns an error and no bytes exactly when one of its
\* primitive writes fails; Unmarshal reports success only when every field
\* was decoded from the buffer (the receiver re-encodes to the bytes read),
\* reports an error for every truncated record, and after an error has not
\* gone past the failing step.
C7_AllOrNothing ==
    /\ codecPc # "start" =>
           /\ codecOut.err # NoErr
                  <=> codecOut.fault \in 1..(7 + Len(codecMsg.Body))
           /\ codecOut.err # NoErr => codecOut.data = <<>>
           /\ codecOut.err = NoErr => codecOut.data # <<>>
    /\ codecPc = "unmarshalled" =>
           /\ codecIn.err = NoErr =>
                  IsPrefix(Marshal(codecIn.message, codecIn.v, 0).data,
                           codecBuf)
           /\ Len(codecBuf) < Len(codecOut.data) => codecIn.err # NoErr
           /\ codecIn.err # NoErr => codecIn.message.DeliveryCount = 0
           /\ (codecIn.err # NoErr /\ codecIn.message.Header = <<>>) =>
                  /\ codecIn.message.Exchange = <<>>
                  /\ codecIn.message.RoutingKey = <<>>
                  /\ codecIn.message.BodySize = 0
                  /\ codecIn.message.Body = <<>>

\* a record whose last frame has a bad frame-end octet is rejected after the
\* first frame was decoded
C7_Witness ==
    /\ codecPc = "unmarshalled"
    /\ codecIn.err = ErrFrameEnd
    /\ Len(codecIn.message.Body) = 1
    /\ Len(codecMsg.Body) = 2

\* --------------------------- the body-decoding loop of Unmarshal, by step
EncodeFrames(frames) == WriteFrames(<<>>, frames, 1, 0).buf

\* blobs as ReadLongstr can return them: the frames Marshal wrote, and the
\* same bytes cut short or with the last octet overwritten
InitLoop ==
    /\ \E frames \in BodySeqs :
        \E blob \in {Take(EncodeFrames(frames), n) :
                        n \in 0..Len(EncodeFrames(frames))}
                    \cup {IF frames = <<>> THEN <<>>
                          ELSE [EncodeFrames(frames) EXCEPT
                                   ![Len(EncodeFrames(frames))] = 9]} :
            /\ loopBlob = blob
            /\ loopBuffer = blob
            /\ loopSrc = [frames |-> frames,
                          intact |-> blob = EncodeFrames(frames)]
    /\ loopBody = <<>>
    /\ loopPc = "loop"

\* mutant: the decoded frame is put in front of message.Body
LoopIterPrepends ==
    /\ loopPc = "loop"
    /\ Len(loopBuffer) # 0
    /\ \E f \in {ReadFrame(loopBuffer)} :
          IF f.err # NoErr
          THEN /\ loopPc' = "error"
               /\ UNCHANGED <<loopBuffer, loopBody>>
          ELSE /\ loopBody' = <<f.val[1]>> \o loopBody
               /\ loopBuffer' = f.rest
               /\ UNCHANGED loopPc
    /\ UNCHANGED <<loopBlob, loopSrc, outsideLoop>>

\* one iteration: for bodyBuffer.Len() != 0 { ReadFrame; append }
LoopIter ==
    /\ loopPc = "loop"
    /\ Len(loopBuffer) # 0
    /\ \E f \in {ReadFrame(loopBuffer)} :
          IF f.err # NoErr
          THEN /\ loopPc' = "error"
               /\ UNCHANGED <<loopBuffer, loopBody>>
          ELSE /\ loopBody' = Append(loopBody, f.val[1])
               /\ loopBuffer' = f.rest
               /\ UNCHANGED loopPc
    /\ UNCHANGED <<loopBlob, loopSrc, outsideLoop>>

\* the loop condition fails: Unmarshal goes on to read the delivery count
LoopExit ==
    /\ loopPc = "loop"
    /\ Len(loopBuffer) = 0
    /\ loopPc' = "done"
    /\ UNCHANGED <<loopBlob, loopBuffer, loopBody, loopSrc, outsideLoop>>

InitSpecLoop ==
    /\ msgID \in Seeds
    /\ InitLoop /\ IdleLife /\ IdleCodec /\ IdleSeq /\ IdleConfirm /\ IdleErr

NextLoop ==
    \/ LoopIter
    \/ LoopExit

\* the loop runs in one goroutine, which keeps running: a step that can be
\* taken is taken
SpecLoop == InitSpecLoop /\ [][NextLoop]_vars /\ WF_vars(NextLoop)

\* C10: the loop always terminates: an iteration that stays in the loop
\* leaves fewer unread bytes, and every run ends in "done" or "error". On a
\* blob Marshal wrote from frames f1..fk it ends in "done" with exactly
\* f1..fk decoded in order and no byte left.
C10_LoopTerminates ==
    /\ [][(loopPc = "loop" /\ loopPc' = "loop")
             => Len(loopBuffer') < Len(loopBuffer)]_vars
    /\ <>(loopPc \in {"done", "error"})
    /\ [](loopSrc.intact => loopPc # "error")
    /\ []((loopSrc.intact /\ loopPc = "done") =>
             /\ loopBody = loopSrc.frames
             /\ loopBuffer = <<>>)
    /\ [](loopPc = "done" => loopBuffer = <<>>)

C10_Witness ==
    /\ loopPc = "done"
    /\ loopSrc.intact
    /\ Len(loopBody) = 2
    /\ loopBody[1] # loopBody[2]
    /\ loopBody[1].Payload = <<>>

\* ------------------------------- GenerateSeq called by concurrent callers
\* Each caller owns one Message with ID 0. GenerateSeq is three steps: the
\* test of message.ID, atomic.AddUint64 on msgID, the store to message.ID.
Callers == 1..NumCallers

InitSeq ==
    /\ msgID \in Seeds
    /\ seqID = [c \in Callers |-> 0]
    /\ seqReg = [c \in Callers |-> 0]
    /\ seqPc = [c \in Callers |-> "idle"]
    /\ seqBefore = [c \in Callers |-> {}]

SeqCall(c) ==
    /\ seqPc[c] = "idle"
    /\ seqPc' = [seqPc EXCEPT ![c] = "test"]
    /\ seqBefore' = [seqBefore EXCEPT
                        ![c] = {d \in Callers : seqPc[d] = "returned"}]
    /\ UNCHANGED <<msgID, seqID, seqReg, outsideSeq>>

SeqTest(c) ==
    /\ seqPc[c] = "test"
    /\ seqPc' = [seqPc EXCEPT
                    ![c] = IF seqID[c] = 0 THEN "add" ELSE "returned"]
    /\ UNCHANGED <<msgID, seqID, seqReg, seqBefore, outsideSeq>>

\* mutant: the counter is read and one is added, but it is not written back
SeqAddLosesUpdate(c) ==
    /\ seqPc[c] = "add"
    /\ seqReg' = [seqReg EXCEPT ![c] = msgID + 1]
    /\ seqPc' = [seqPc EXCEPT ![c] = "store"]
    /\ UNCHANGED <<msgID, seqID, seqBefore, outsideSeq>>

\* atomic.AddUint64(&msgID, 1): one indivisible step, returns the new value
SeqAdd(c) ==
    /\ seqPc[c] = "add"
    /\ msgID' = msgID + 1
    /\ seqReg' = [seqReg EXCEPT ![c] = msgID + 1]
    /\ seqPc' = [seqPc EXCEPT ![c] = "store"]
    /\ UNCHANGED <<seqID, seqBefore, outsideSeq>>

SeqStore(c) ==
    /\ seqPc[c] = "store"
    /\ seqID' = [seqID EXCEPT ![c] = seqReg[c]]
    /\ seqPc' = [seqPc EXCEPT ![c] = "returned"]
    /\ UNCHANGED <<msgID, seqReg, seqBefore, outsideSeq>>

InitSpecSeq ==
    InitSeq /\ IdleLife /\ IdleCodec /\ IdleLoop /\ IdleConfirm /\ IdleErr

NextSeq ==
    \E c \in Callers :
        \/ SeqCall(c)
        \/ SeqTest(c)
        \/ SeqAdd(c)
        \/ SeqStore(c)

SpecSeq == InitSpecSeq /\ [][NextSeq]_vars

Returned == {c \in Callers : seqPc[c] = "returned"}

\* C2: under every interleaving each message gets its ID from one increment
\* of the one counter: the IDs handed out are pairwise distinct, the counter
\* has advanced once per ID, and a call that began after another returned
\* got a strictly larger ID.
C2_DistinctIncreasing ==
    /\ \A c \in Returned : seqID[c] # 0
    /\ \A c, d \in Returned : c # d => seqID[c] # seqID[d]
    /\ \A c \in Returned : \A d \in seqBefore[c] : seqID[c] > seqID[d]
    /\ \E s \in Seeds :
           /\ msgID - s = Cardinality({c \in Callers :
                                          seqPc[c] \in {"store", "returned"}})
           /\ \A c \in Returned : seqID[c] \in (s + 1)..msgID

\* all callers have returned; one call began after another had returned,
\* one overlapped with another
C2_Witness ==
    /\ Returned = Callers
    /\ \E c, d \in Callers : d \in seqBefore[c]
    /\ \E c, d \in Callers : c # d /\ d \notin seqBefore[c] /\ c \notin seqBefore[d]

\* ------------------------------------------ confirm tracking of a publish
\* The delivery-completion path is outside types.go: each destination counts
\* its completion with one atomic increment of ActualConfirms, then polls
\* CanConfirm.
Destinations == 1..MaxConfirms

InitConfirm ==
    /\ \E n \in 0..MaxConfirms, chanID \in 1..2, tag \in 1..3 :
        confirmMeta = ConfirmMeta(chanID, 9, tag, n, 0)
    /\ acked = {}
    /\ polled = <<>>

Notify(d) ==
    /\ d \notin acked
    /\ d <= confirmMeta.ExpectedConfirms
    /\ confirmMeta' = [confirmMeta EXCEPT
                          !.ActualConfirms = confirmMeta.ActualConfirms + 1]
    /\ acked' = acked \cup {d}
    /\ UNCHANGED <<polled, outsideConfirm>>

Poll ==
    /\ polled' = <<CanConfirm(confirmMeta)>>
    /\ UNCHANGED <<confirmMeta, acked, outsideConfirm>>

InitSpecConfirm ==
    /\ msgID \in Seeds
    /\ InitConfirm /\ IdleLife /\ IdleCodec /\ IdleLoop /\ IdleSeq /\ IdleErr

NextConfirm ==
    \/ \E d \in Destinations : Notify(d)
    \/ Poll

SpecConfirm == InitSpecConfirm /\ [][NextConfirm]_vars

\* C9: with n expected confirms counted one at a time, ActualConfirms stays
\* within 0..n and equals the number of completions counted, CanConfirm is
\* false while fewer than n are counted and true once all n are.
C9_ConfirmTracking ==
    /\ confirmMeta.ActualConfirms \in 0..confirmMeta.ExpectedConfirms
    /\ confirmMeta.ActualConfirms = Cardinality(acked)
    /\ Cardinality(acked) < confirmMeta.ExpectedConfirms
           => ~CanConfirm(confirmMeta)
    /\ Cardinality(acked) = confirmMeta.ExpectedConfirms
           => CanConfirm(confirmMeta)

\* two of three completions counted and a poll in between said no
C9_Witness ==
    /\ confirmMeta.ExpectedConfirms = 3
    /\ Cardinality(acked) = 2
    /\ polled = <<FALSE>>

\* --------------------------------------- CanConfirm on arbitrary counters
InitCanConfirm ==
    /\ \E expected \in (0 - MaxCount)..MaxCount,
          actual \in (0 - MaxCount)..MaxCount, tag \in 1..2 :
        confirmMeta = ConfirmMeta(1, 9, tag, expected, actual)
    /\ acked = {}
    /\ polled = <<>>

CanConfirmAct ==
    /\ polled = <<>>
    /\ polled' = <<CanConfirm(confirmMeta)>>
    /\ UNCHANGED <<confirmMeta, acked, outsideConfirm>>

InitSpecCanConfirm ==
    /\ msgID \in Seeds
    /\ InitCanConfirm /\ IdleLife /\ IdleCodec /\ IdleLoop /\ IdleSeq
    /\ IdleErr

NextCanConfirm == CanConfirmAct

SpecCanConfirm == InitSpecCanConfirm /\ [][NextCanConfirm]_vars

\* C5: CanConfirm answers true exactly when the two counters are equal, also
\* at 0 and 0, and leaves the ConfirmMeta as it was.
C5_CanConfirm ==
    /\ [](polled # <<>> =>
            /\ polled[1] = TRUE
                   <=> confirmMeta.ActualConfirms - confirmMeta.ExpectedConfirms = 0
            /\ (confirmMeta.ExpectedConfirms = 0
                    /\ confirmMeta.ActualConfirms = 0) => polled[1] = TRUE)
    /\ [][confirmMeta' = confirmMeta]_vars

C5_Witness ==
    /\ polled = <<TRUE>>
    /\ confirmMeta.ExpectedConfirms = 0
    /\ confirmMeta.ActualConfirms = 0

\* ----------------------------------------------------- Error constructors
Codes == {NotFound, ChannelError, SyntaxError, 0}
Details == {"unexpected frame", ""}
ClassIDs == {10, 60}
MethodIDs == {0, 40}

InitErr ==
    /\ connErr = <<>>
    /\ chanErr = <<>>

NewConnectionErrorAct ==
    \E code \in Codes, text \in Details, classID \in ClassIDs,
       methodID \in MethodIDs :
        /\ connErr' = <<[args |-> <<code, text, classID, methodID>>,
                         err |-> NewConnectionError(code, text, classID,
                                                    methodID)]>>
        /\ UNCHANGED <<chanErr, outsideErr>>

NewChannelErrorAct ==
    \E code \in Codes, text \in Details, classID \in ClassIDs,
       methodID \in MethodIDs :
        /\ chanErr' = <<[args |-> <<code, text, classID, methodID>>,
                         err |-> NewChannelError(code, text, classID,
                                                 methodID)]>>
        /\ UNCHANGED <<connErr, outsideErr>>

InitSpecErr ==
    /\ msgID \in Seeds
    /\ InitErr /\ IdleLife /\ IdleCodec /\ IdleLoop /\ IdleSeq /\ IdleConfirm

NextErr ==
    \/ NewConnectionErrorAct
    \/ NewChannelErrorAct

SpecErr == InitSpecErr /\ [][NextErr]_vars

\* C6: for the same arguments the two constructors give Errors equal in
\* ReplyCode, ReplyText, ClassID and MethodID and different in ErrorType:
\* NewConnectionError always tags the connection scope, NewChannelError the
\* channel scope, and the text is the code's name, " - ", the detail.
C6_ScopeOnlyDifference ==
    /\ connErr # <<>> =>
           /\ connErr[1].err.ErrorType = ErrorOnConnection
           /\ connErr[1].err.ReplyCode = connErr[1].args[1]
           /\ connErr[1].err.ReplyText
                  = ConstantsNameMap(connErr[1].args[1]) \o " - "
                        \o connErr[1].args[2]
    /\ chanErr # <<>> =>
           /\ chanErr[1].err.ErrorType = ErrorOnChannel
           /\ chanErr[1].err.ReplyCode = chanErr[1].args[1]
           /\ chanErr[1].err.ReplyText
                  = ConstantsNameMap(chanErr[1].args[1]) \o " - "
                        \o chanErr[1].args[2]
    /\ (connErr # <<>> /\ chanErr # <<>>
            /\ connErr[1].args = chanErr[1].args) =>
           /\ connErr[1].err.ReplyCode = chanErr[1].err.ReplyCode
           /\ connErr[1].err.ReplyText = chanErr[1].err.ReplyText
           /\ connErr[1].err.ClassID = chanErr[1].err.ClassID
           /\ connErr[1].err.MethodID = chanErr[1].err.MethodID
           /\ connErr[1].err.ErrorType # chanErr[1].err.ErrorType
           /\ [connErr[1].err EXCEPT !.ErrorType = ErrorOnChannel]
                  = chanErr[1].err

C6_Witness ==
    /\ connErr # <<>> /\ chanErr # <<>>
    /\ connErr[1].args = chanErr[1].args
    /\ connErr[1].args[1] = NotFound
    /\ connErr[1].args[2] = "unexpected frame"

====
